---- MODULE Spec2Model ----
(***************************************************************************)
(* Event-Attendance: the attendance ledger (add_scan), the hod approval    *)
(* handlers (hod_action, hod_bulk_action), the read handlers (view_event,  *)
(* scan_lookup) of app.py and the digest scheduler of email_service.py     *)
(* (send_hod_attendance_reports and the functions it calls).               *)
(*                                                                         *)
(* The tables `attendance` and `sent_emails` are sequences of rows, a      *)
(* row's AUTOINCREMENT id being its index.  The tables `users`, `students` *)
(* and `events` are fixed directories.  A digest run is one execution of   *)
(* send_hod_attendance_reports; it reads and writes the store in separate  *)
(* committed statements, so per hod the select and the send-then-mark are  *)
(* separate actions that other handlers and another run interleave with.   *)
(***************************************************************************)
EXTENDS Integers, Sequences, FiniteSets, TLC

VARIABLES
    attendance,   \* table attendance: sequence of rows, id = index
    sent_emails,  \* table sent_emails: sequence of rows, id = index
    now,          \* the wall clock read by datetime.utcnow(): it has moved on
                  \* by the time the next scan is recorded
    run,          \* per scheduler job instance: position in send_hod_attendance_reports
    started,      \* number of digest runs started so far
    outbox,       \* history: every call of send_email made by a digest run, in order
    calls,        \* the hod_action and hod_bulk_action requests that are being
                  \* served at the same time as others, and those that were
    ev            \* history: the last operation and what it returned

vars == <<attendance, sent_emails, now, run, started, outbox, calls, ev>>

----------------------------------------------------------------------------
(* Bounds of the model *)

\* rows of attendance
MaxRecords == 2
\* rows of attendance in the ledgers a report is formatted from
MaxReportRows == 3
\* hod_action and hod_bulk_action requests served at the same time as others
MaxCalls == 2
\* digest runs started, where only scans go on beside the digest
MaxRunStarts == 2
\* digest runs started, where every handler goes on beside the digest
MaxRunsWithReviews == 1

----------------------------------------------------------------------------
(* Directories and value domains *)

\* SQL NULL of an INTEGER / TEXT timestamp column (ids and clock values are >= 1)
NULL == 0

\* session.get("user_id") is absent
NoUser == 0

\* table users, in rowid order.  register stores the form's role and branch as
\* posted: the branch of a user registered without one is "", and the role of
\* the last user is a value the form does not offer
Users ==
    << [role |-> "organiser", branch |-> ""],
       [role |-> "hod",       branch |-> "CS"],
       [role |-> "hod",       branch |-> ""],
       [role |-> "hod",       branch |-> "CS"],
       [role |-> "student",   branch |-> ""],
       [role |-> "organ",     branch |-> ""] >>

UserIds == 1..Len(Users)

\* who calls the handlers: nobody, the organiser, a hod, the student, and the
\* user registered with the role "organ"
Callers == {NoUser, 1, 2, 5, 6}

\* table students
Students ==
    [roll \in {"R1", "R2"} |->
        IF roll = "R1" THEN [name |-> "Asha", branch |-> "CS"]
                       ELSE [name |-> "Ravi", branch |-> "EE"]]

\* rolls a scanner may submit: "RX" is in no row of students
RollInputs == {"R1", "R2", "RX"}

\* the (event_id, roll) payloads a scanner submits
ScanInputs == {<<1, "R1">>, <<2, "R1">>, <<1, "R2">>, <<1, "RX">>, <<9, "R1">>}

\* table events
Events ==
    [e \in {1, 2} |->
        IF e = 1 THEN [title |-> "Seminar",  description |-> "d1"]
                 ELSE [title |-> "Workshop", description |-> "d2"]]

\* event ids a scanner may submit: 9 is the id of no event
EventIdInputs == {1, 2, 9}

Status == {"Pending", "Approved", "Rejected"}

\* action values a client may post: "Approve" is none of the three
ActionInputs == Status \cup {"Approve"}

\* the two cron jobs' labels
Labels == {"12:30", "16:00"}

\* scheduler job instances that may be executing send_hod_attendance_reports
Runs == {1, 2}

\* TEXT comparison of rolls (ORDER BY s.roll ASC); NULL sorts first
RollRank(roll) ==
    CASE roll = "R1" -> 1
      [] roll = "R2" -> 2
      [] OTHER -> 0

----------------------------------------------------------------------------
(* Helpers shared by the handlers *)

\* all orderings of the rows S that an ORDER BY admits, leq being the pairs of
\* rows the order allows in that sequence (rows with equal keys come in any order)
SortedSeqs(S, leq) ==
    LET n == Cardinality(S)
    IN  {s \in [1..n -> S] :
            /\ \A i, j \in 1..n : i # j => s[i] # s[j]
            /\ \A k \in 1..n : k < n => <<s[k], s[k + 1]>> \in leq}

\* user["role"] not in ("organiser"): ("organiser") is a str, so `in` is the
\* substring test; of the roles of Users "organiser" and "organ" are substrings
InOrganiserStr(role) == role \in {"organiser", "organ", ""}

IsOrganiser(caller) == caller # NoUser /\ InOrganiserStr(Users[caller].role)

IsHod(caller) == caller # NoUser /\ Users[caller].role = "hod"

\* LEFT JOIN students s ON a.roll = s.roll: s.branch, or "" for SQL NULL
JoinedBranch(row) ==
    IF row.roll \in DOMAIN Students THEN Students[row.roll].branch ELSE ""

\* s.roll of the LEFT JOIN as a sort key (NULL first)
JoinedRollRank(row) ==
    IF row.roll \in DOMAIN Students THEN RollRank(row.roll) ELSE 0

\* SELECT COUNT(*) FROM attendance WHERE event_id=? [AND status=?]
CountEvent(att, event_id) ==
    Cardinality({i \in 1..Len(att) : att[i].event_id = event_id})

CountEventStatus(att, event_id, status) ==
    Cardinality({i \in 1..Len(att) :
                    att[i].event_id = event_id /\ att[i].status = status})

----------------------------------------------------------------------------
(* add_scan *)

\* mutant of NewAttendanceRow: the organiser's id written to hod_id as well
NewAttendanceRowReviewed(event_id, roll, scanned_at, organiser_id) ==
    [event_id      |-> event_id,
     roll          |-> roll,
     scanned_at    |-> scanned_at,
     organiser_id  |-> organiser_id,
     status        |-> "Pending",
     hod_id        |-> organiser_id,
     hod_action_at |-> NULL]

\* the row of INSERT INTO attendance (event_id,roll,scanned_at,organiser_id,status);
\* hod_id and hod_action_at take the column default NULL
NewAttendanceRow(event_id, roll, scanned_at, organiser_id) ==
    [event_id      |-> event_id,
     roll          |-> roll,
     scanned_at    |-> scanned_at,
     organiser_id  |-> organiser_id,
     status        |-> "Pending",
     hod_id        |-> NULL,
     hod_action_at |-> NULL]

\* mutant of AddScan: a scan of an (event_id, roll) that has a row inserts none
AddScanDeduplicating(caller, event_id, roll) ==
    /\ Len(attendance) < MaxRecords
    /\ IF ~IsOrganiser(caller)
       THEN /\ ev' = [op |-> "add_scan", code |-> 401]
            /\ UNCHANGED <<attendance, now>>
       ELSE LET dup == \E i \in 1..Len(attendance) :
                          /\ attendance[i].event_id = event_id
                          /\ attendance[i].roll = roll
                att == IF dup THEN attendance
                       ELSE Append(attendance,
                                   NewAttendanceRow(event_id, roll, now, caller))
            IN  /\ attendance' = att
                /\ now' = now + 1
                /\ ev' = [op |-> "add_scan", code |-> 200,
                          id |-> Len(att), scanned_at |-> now,
                          counts |->
                            [total    |-> CountEvent(att, event_id),
                             pending  |-> CountEventStatus(att, event_id, "Pending"),
                             approved |-> CountEventStatus(att, event_id, "Approved")]]
    /\ UNCHANGED <<sent_emails, run, started, outbox, calls>>

AddScan(caller, event_id, roll) ==
    /\ Len(attendance) < MaxRecords
    /\ IF ~IsOrganiser(caller)
       THEN /\ ev' = [op |-> "add_scan", code |-> 401]
            /\ UNCHANGED <<attendance, now>>
       ELSE LET att == Append(attendance,
                              NewAttendanceRow(event_id, roll, now, caller))
            IN  /\ attendance' = att
                /\ now' = now + 1
                /\ ev' = [op |-> "add_scan", code |-> 200,
                          id |-> Len(att), scanned_at |-> now,
                          counts |->
                            [total    |-> CountEvent(att, event_id),
                             pending  |-> CountEventStatus(att, event_id, "Pending"),
                             approved |-> CountEventStatus(att, event_id, "Approved")]]
    /\ UNCHANGED <<sent_emails, run, started, outbox, calls>>

----------------------------------------------------------------------------
(* hod_action and hod_bulk_action *)

\* mutant of SetClause: hod_action_at left out of the SET clause
SetClauseNoTimestamp(row, status, hod_id, t) ==
    [row EXCEPT !.status = status, !.hod_id = hod_id]

\* mutant of SetClause: the reviewer is written only to a row that has none
SetClauseFirstReviewer(row, status, hod_id, t) ==
    [row EXCEPT !.status = status,
                !.hod_id = IF row.hod_id = NULL THEN hod_id ELSE row.hod_id,
                !.hod_action_at = t]

\* the SET clause: SET status=?, hod_id=?, hod_action_at=?
SetClause(row, status, hod_id, t) ==
    [row EXCEPT !.status = status, !.hod_id = hod_id, !.hod_action_at = t]

\* mutant of UpdateWhereId: a guarded state machine, only Pending rows are updated
UpdateWhereIdPendingOnly(att, id, status, hod_id, t) ==
    [i \in 1..Len(att) |->
        IF i = id /\ att[i].status = "Pending"
        THEN SetClause(att[i], status, hod_id, t) ELSE att[i]]

\* UPDATE attendance SET ... WHERE id=? (no row matches an id that does not exist)
UpdateWhereId(att, id, status, hod_id, t) ==
    [i \in 1..Len(att) |->
        IF i = id THEN SetClause(att[i], status, hod_id, t) ELSE att[i]]

\* the if/elif chain of hod_action: one UPDATE per recognised action, none otherwise
HodActionUpdate(att, id, action, hod_id, t) ==
    IF action = "Approved" THEN UpdateWhereId(att, id, "Approved", hod_id, t)
    ELSE IF action = "Pending" THEN UpdateWhereId(att, id, "Pending", hod_id, t)
    ELSE IF action = "Rejected" THEN UpdateWhereId(att, id, "Rejected", hod_id, t)
    ELSE att

HodAction(caller, attendance_id, action) ==
    /\ IF ~IsHod(caller)
       THEN /\ ev' = [op |-> "hod_action", code |-> 401]
            /\ UNCHANGED attendance
       ELSE /\ attendance' = HodActionUpdate(attendance, attendance_id, action,
                                             caller, now)
            /\ ev' = [op |-> "hod_action", code |-> 200]
    /\ UNCHANGED <<sent_emails, now, run, started, outbox, calls>>

\* mutant of BulkUpdate: an id of no row makes the batch update nothing
BulkUpdateAllOrNone(att, ids, action, hod_id, t) ==
    IF ids \subseteq 1..Len(att)
    THEN [i \in 1..Len(att) |->
            IF i \in ids THEN SetClause(att[i], action, hod_id, t) ELSE att[i]]
    ELSE att

\* for aid in attendance_ids: conn.execute(q, (action, user["id"], t, aid))
RECURSIVE BulkUpdate(_, _, _, _, _)
BulkUpdate(att, ids, action, hod_id, t) ==
    IF ids = {} THEN att
    ELSE LET aid == CHOOSE x \in ids : TRUE
         IN  BulkUpdate(UpdateWhereId(att, aid, action, hod_id, t),
                        ids \ {aid}, action, hod_id, t)

HodBulkAction(caller, attendance_ids, action) ==
    /\ IF ~IsHod(caller)
       THEN /\ ev' = [op |-> "hod_bulk_action", code |-> 401, updated |-> {}]
            /\ UNCHANGED attendance
       ELSE IF attendance_ids = {} \/ action \notin {"Approved", "Rejected", "Pending"}
       THEN /\ ev' = [op |-> "hod_bulk_action", code |-> 400, updated |-> {}]
            /\ UNCHANGED attendance
       ELSE /\ attendance' = BulkUpdate(attendance, attendance_ids, action,
                                        caller, now)
            /\ ev' = [op |-> "hod_bulk_action", code |-> 200,
                      updated |-> attendance_ids]
    /\ UNCHANGED <<sent_emails, now, run, started, outbox, calls>>

\* mutant of ExitOnError: what was executed before the exception is committed
ExitOnErrorCommit(att_before, att_partial) == att_partial

\* `with get_db_connection() as conn:` left by an exception.  get_db_connection
\* returns the sqlite3 connection itself, whose __exit__ rolls the open
\* transaction back; the UPDATEs of the loop are in one transaction (sqlite3
\* begins it before the first UPDATE, and conn.commit() was not reached)
ExitOnError(att_before, att_partial) == att_before

\* hod_bulk_action when conn.execute raises (sqlite3.OperationalError: the
\* database is locked, the disk is full) after the UPDATEs for the ids
\* `executed`; raised by conn.commit(), `executed` is all of attendance_ids
HodBulkActionFails(caller, attendance_ids, executed, action) ==
    /\ IsHod(caller)
    /\ attendance_ids # {}
    /\ action \in {"Approved", "Rejected", "Pending"}
    /\ executed \subseteq attendance_ids
    /\ attendance' = ExitOnError(attendance,
                                 BulkUpdate(attendance, executed, action,
                                            caller, now))
    /\ ev' = [op |-> "hod_bulk_action", code |-> 500, updated |-> {},
              executed |-> executed]
    /\ UNCHANGED <<sent_emails, now, run, started, outbox, calls>>

----------------------------------------------------------------------------
(* hod_action and hod_bulk_action served at the same time as other requests.
   Flask serves each request in a thread of its own, and a handler reads
   t = datetime.utcnow() before it opens its connection; the UPDATEs of one
   handler are one SQLite write transaction, which no other writer enters. *)

\* hod_action up to t = datetime.utcnow().isoformat()
BeginHodAction(caller, attendance_id, action) ==
    /\ Len(calls) < MaxCalls
    /\ IF ~IsHod(caller)
       THEN /\ ev' = [op |-> "hod_action", code |-> 401]
            /\ UNCHANGED calls
       ELSE /\ calls' = Append(calls,
                              [op |-> "hod_action", caller |-> caller,
                               ids |-> {attendance_id}, action |-> action,
                               t |-> now, pc |-> "update", order |-> 0,
                               matched |-> {}])
            /\ ev' = [op |-> "begin", call |-> Len(calls) + 1]
    /\ UNCHANGED <<attendance, sent_emails, now, run, started, outbox>>

\* hod_bulk_action up to t = datetime.utcnow().isoformat()
BeginHodBulkAction(caller, attendance_ids, action) ==
    /\ Len(calls) < MaxCalls
    /\ IF ~IsHod(caller)
       THEN /\ ev' = [op |-> "hod_bulk_action", code |-> 401, updated |-> {}]
            /\ UNCHANGED calls
       ELSE IF attendance_ids = {} \/ action \notin {"Approved", "Rejected", "Pending"}
       THEN /\ ev' = [op |-> "hod_bulk_action", code |-> 400, updated |-> {}]
            /\ UNCHANGED calls
       ELSE /\ calls' = Append(calls,
                              [op |-> "hod_bulk_action", caller |-> caller,
                               ids |-> attendance_ids, action |-> action,
                               t |-> now, pc |-> "update", order |-> 0,
                               matched |-> {}])
            /\ ev' = [op |-> "begin", call |-> Len(calls) + 1]
    /\ UNCHANGED <<attendance, sent_emails, now, run, started, outbox>>

\* the number of requests of calls that have committed
Committed == Cardinality({k \in 1..Len(calls) : calls[k].pc = "done"})

\* the rest of the handler of request k: its UPDATE or UPDATEs with the t it
\* read, conn.commit() and the answer (history: `order`, the position of the
\* commit among the commits, and `matched`, the ids of the rows updated)
CommitCall(k) ==
    /\ calls[k].pc = "update"
    /\ attendance' =
          IF calls[k].op = "hod_action"
          THEN HodActionUpdate(attendance, CHOOSE id \in calls[k].ids : TRUE,
                               calls[k].action, calls[k].caller, calls[k].t)
          ELSE BulkUpdate(attendance, calls[k].ids, calls[k].action,
                          calls[k].caller, calls[k].t)
    /\ calls' = [calls EXCEPT
                    ![k].pc = "done",
                    ![k].order = Committed + 1,
                    ![k].matched =
                        IF calls[k].action \in {"Approved", "Rejected", "Pending"}
                        THEN calls[k].ids \cap (1..Len(attendance)) ELSE {}]
    /\ ev' = IF calls[k].op = "hod_action"
             THEN [op |-> "hod_action", code |-> 200]
             ELSE [op |-> "hod_bulk_action", code |-> 200,
                   updated |-> calls[k].ids]
    /\ UNCHANGED <<sent_emails, now, run, started, outbox>>

----------------------------------------------------------------------------
(* view_event and scan_lookup: reads *)

\* ORDER BY s.roll ASC  /  ORDER BY a.scanned_at DESC
ViewLeq(sort) ==
    {p \in (1..Len(attendance)) \X (1..Len(attendance)) :
        IF sort = "scanned_at"
        THEN attendance[p[1]].scanned_at >= attendance[p[2]].scanned_at
        ELSE JoinedRollRank(attendance[p[1]]) <= JoinedRollRank(attendance[p[2]])}

\* mutant of ViewRows: the hod's query without AND s.branch=?
ViewRowsUnfiltered(caller, event_id) ==
    IF InOrganiserStr(Users[caller].role) \/ Users[caller].role = "hod"
    THEN {i \in 1..Len(attendance) : attendance[i].event_id = event_id}
    ELSE {}

\* the ids the role's query returns for the event
ViewRows(caller, event_id) ==
    IF InOrganiserStr(Users[caller].role)
    THEN {i \in 1..Len(attendance) : attendance[i].event_id = event_id}
    ELSE IF Users[caller].role = "hod"
    THEN {i \in 1..Len(attendance) :
            /\ attendance[i].event_id = event_id
            /\ attendance[i].roll \in DOMAIN Students
            /\ Users[caller].branch # ""
            /\ JoinedBranch(attendance[i]) = Users[caller].branch}
    ELSE {}

ViewEvent(caller, event_id, sort) ==
    /\ IF caller = NoUser
       THEN ev' = [op |-> "view_event", code |-> 302, rows |-> <<>>]
       ELSE IF event_id \notin DOMAIN Events
       THEN ev' = [op |-> "view_event", code |-> 404, rows |-> <<>>]
       ELSE \E rows \in SortedSeqs(ViewRows(caller, event_id), ViewLeq(sort)) :
                ev' = [op |-> "view_event", code |-> 200, rows |-> rows]
    /\ UNCHANGED <<attendance, sent_emails, now, run, started, outbox, calls>>

ScanLookup(caller, roll) ==
    /\ IF ~IsOrganiser(caller)
       THEN ev' = [op |-> "scan_lookup", code |-> 401, roll |-> roll,
                   name |-> "", branch |-> ""]
       ELSE IF roll \in DOMAIN Students
       THEN ev' = [op |-> "scan_lookup", code |-> 200, roll |-> roll,
                   name |-> Students[roll].name, branch |-> Students[roll].branch]
       ELSE ev' = [op |-> "scan_lookup", code |-> 200, roll |-> roll,
                   name |-> "", branch |-> ""]
    /\ UNCHANGED <<attendance, sent_emails, now, run, started, outbox, calls>>

----------------------------------------------------------------------------
(* email_service.py: the digest run *)

\* hod_emails: SELECT email FROM users WHERE role='hod' (emails are unique, so a
\* hod's email stands for the user's id), in rowid order
HodList == SelectSeq([i \in UserIds |-> i], LAMBDA u : Users[u].role = "hod")

\* mutant of HasMarker: the join without AND se.email_time = ?
HasMarkerAnyLabel(se, att_id, email_time) ==
    \E k \in 1..Len(se) : se[k].attendance_id = att_id

\* a row of sent_emails joins the attendance row on a.id and se.email_time = ?
HasMarker(se, att_id, email_time) ==
    \E k \in 1..Len(se) :
        se[k].attendance_id = att_id /\ se[k].email_time = email_time

\* mutant of Unsent: the filter se.id IS NULL left out
UnsentWithoutNullFilter(att, se, branch, email_time) ==
    {i \in 1..Len(att) :
        /\ att[i].event_id \in DOMAIN Events
        /\ att[i].roll \in DOMAIN Students
        /\ Students[att[i].roll].branch = branch}

\* mutant of Unsent: events joined with LEFT JOIN, so that a row of an event
\* that does not exist stays in the result
UnsentLeftJoinEvents(att, se, branch, email_time) ==
    {i \in 1..Len(att) :
        /\ att[i].roll \in DOMAIN Students
        /\ Students[att[i].roll].branch = branch
        /\ ~HasMarker(se, i, email_time)}

\* the WHERE of get_unsent_attendance_for_hod over the three joins:
\* JOIN events, JOIN students, LEFT JOIN sent_emails ... WHERE s.branch = ?
\* AND se.id IS NULL
Unsent(att, se, branch, email_time) ==
    {i \in 1..Len(att) :
        /\ att[i].event_id \in DOMAIN Events
        /\ att[i].roll \in DOMAIN Students
        /\ Students[att[i].roll].branch = branch
        /\ ~HasMarker(se, i, email_time)}

\* ORDER BY s.roll ASC, a.scanned_at ASC
DigestLeq ==
    {p \in (1..Len(attendance)) \X (1..Len(attendance)) :
        \/ RollRank(attendance[p[1]].roll) < RollRank(attendance[p[2]].roll)
        \/ /\ RollRank(attendance[p[1]].roll) = RollRank(attendance[p[2]].roll)
           /\ attendance[p[1]].scanned_at <= attendance[p[2]].scanned_at}

\* the row of events joined ON a.event_id = e.id; a row of attendance that
\* none joins has no columns of e ("" for SQL NULL) and is dropped by the
\* inner JOIN of the query
JoinedEvent(row) ==
    IF row.event_id \in DOMAIN Events THEN Events[row.event_id]
    ELSE [title |-> "", description |-> ""]

\* the row the SELECT returns for the attendance row of id i: e.title,
\* e.description, a.id, s.roll, s.name, a.scanned_at, a.status
FetchedRow(i) ==
    [title         |-> JoinedEvent(attendance[i]).title,
     description   |-> JoinedEvent(attendance[i]).description,
     attendance_id |-> i,
     roll          |-> attendance[i].roll,
     student_name  |-> Students[attendance[i].roll].name,
     scanned_at    |-> attendance[i].scanned_at,
     status        |-> attendance[i].status]

\* fetchall(): the rows of the ids, in the order of the ids
FetchAll(ids) == [k \in 1..Len(ids) |-> FetchedRow(ids[k])]

\* current_event = None: Python's None, which is != every title
None == "<None>"

\* the loop of format_attendance_report over plain_lines: the three lines of
\* an event section when the title is not current_event, then the row's line
RECURSIVE PlainLines(_, _)
PlainLines(rows, current_event) ==
    IF rows = <<>> THEN <<>>
    ELSE LET row == Head(rows)
             section ==
                IF current_event # row.title
                THEN << [kind |-> "event", text |-> row.title],
                        [kind |-> "description", text |-> row.description],
                        [kind |-> "details", text |-> "Student details:"] >>
                ELSE <<>>
             line == [kind |-> "student", text |-> row.roll,
                      student_name |-> row.student_name, status |-> row.status,
                      scanned_at |-> row.scanned_at,
                      attendance_id |-> row.attendance_id]
         IN  section \o <<line>> \o PlainLines(Tail(rows), row.title)

\* the <table> that a flush appends for the rows collected in table_rows
HtmlTable(table_rows) ==
    IF table_rows = <<>> THEN <<>>
    ELSE << [kind |-> "table", text |-> "", table_rows |-> table_rows] >>

\* the loop over html_parts: at a title that is not current_event the table
\* of the rows collected so far is flushed and <h3>, <div> open the section;
\* the last table is flushed after the loop
RECURSIVE HtmlParts(_, _, _)
HtmlParts(rows, current_event, table_rows) ==
    IF rows = <<>> THEN HtmlTable(table_rows)
    ELSE LET row == Head(rows)
             tr == [roll |-> row.roll, student_name |-> row.student_name,
                    status |-> row.status, scanned_at |-> row.scanned_at,
                    attendance_id |-> row.attendance_id]
         IN  IF current_event # row.title
             THEN HtmlTable(table_rows)
                    \o << [kind |-> "h3", text |-> row.title],
                          [kind |-> "div", text |-> row.description] >>
                    \o HtmlParts(Tail(rows), row.title, <<tr>>)
             ELSE HtmlParts(Tail(rows), row.title, Append(table_rows, tr))

\* the distinct titles of the rows, in the order of their first row
RECURSIVE TitlesInOrder(_, _)
TitlesInOrder(rows, seen) ==
    IF rows = <<>> THEN <<>>
    ELSE IF Head(rows).title \in seen THEN TitlesInOrder(Tail(rows), seen)
    ELSE <<Head(rows).title>>
            \o TitlesInOrder(Tail(rows), seen \cup {Head(rows).title})

\* the rows of each title together, the titles in the order of their first row
RECURSIVE GroupedByTitle(_, _)
GroupedByTitle(rows, titles) ==
    IF titles = <<>> THEN <<>>
    ELSE SelectSeq(rows, LAMBDA row : row.title = Head(titles))
            \o GroupedByTitle(rows, Tail(titles))

\* mutant of FormatAttendanceReport: a group-by, one section per event title
FormatAttendanceReportGroupBy(branch, rows) ==
    IF rows = <<>>
    THEN [plain |-> << [kind |-> "none", text |-> ""] >>,
          html  |-> << [kind |-> "none", text |-> ""] >>]
    ELSE LET grouped == GroupedByTitle(rows, TitlesInOrder(rows, {}))
         IN  [plain |-> << [kind |-> "report", text |-> branch],
                           [kind |-> "blank", text |-> ""] >>
                            \o PlainLines(grouped, None),
              html  |-> << [kind |-> "h2", text |-> branch] >>
                            \o HtmlParts(grouped, None, <<>>)]

\* format_attendance_report: (plain_lines, html_parts), a line or part being
\* its kind and the values formatted into it
FormatAttendanceReport(branch, rows) ==
    IF rows = <<>>
    THEN [plain |-> << [kind |-> "none", text |-> ""] >>,
          html  |-> << [kind |-> "none", text |-> ""] >>]
    ELSE [plain |-> << [kind |-> "report", text |-> branch],
                       [kind |-> "blank", text |-> ""] >>
                        \o PlainLines(rows, None),
          html  |-> << [kind |-> "h2", text |-> branch] >>
                        \o HtmlParts(rows, None, <<>>)]

\* mutant of InsertOrIgnore: a plain INSERT into a table without the constraint
InsertPlain(se, att_id, sent_at, email_time) ==
    Append(se, [attendance_id |-> att_id, sent_at |-> sent_at,
                email_time |-> email_time])

\* INSERT OR IGNORE INTO sent_emails (attendance_id, sent_at, email_time):
\* the UNIQUE(attendance_id, email_time) conflict makes the insert a no-op
InsertOrIgnore(se, att_id, sent_at, email_time) ==
    IF HasMarker(se, att_id, email_time)
    THEN se
    ELSE Append(se, [attendance_id |-> att_id, sent_at |-> sent_at,
                     email_time |-> email_time])

\* mark_attendance_as_sent: one INSERT OR IGNORE per id, then one commit
RECURSIVE MarkAttendanceAsSent(_, _, _, _)
MarkAttendanceAsSent(se, attendance_ids, sent_at, email_time) ==
    IF attendance_ids = <<>> THEN se
    ELSE MarkAttendanceAsSent(
            InsertOrIgnore(se, Head(attendance_ids), sent_at, email_time),
            Tail(attendance_ids), sent_at, email_time)

Range(s) == {s[k] : k \in 1..Len(s)}

\* history: the hods with a branch for whose branch some record has no marker
EligibleHods(email_time) ==
    {h \in Range(HodList) :
        /\ Users[h].branch # ""
        /\ Unsent(attendance, sent_emails, Users[h].branch, email_time) # {}}

IdleRun ==
    [pc |-> "idle", label |-> "12:30", idx |-> 0, rows |-> <<>>,
     fetched |-> <<>>, no |-> 0, eligible |-> {}]

RunActive(r) == run[r].pc \in {"select", "send"}

\* the job function calls send_hod_attendance_reports(conn, email_time); the
\* instance that fires is the first one not executing a run
StartRun(r, email_time) ==
    /\ ~RunActive(r)
    /\ \A q \in Runs : q < r => RunActive(q)
    /\ started < MaxRunStarts
    /\ started' = started + 1
    /\ run' = [run EXCEPT ![r] =
                  [pc |-> IF Len(HodList) = 0 THEN "done" ELSE "select",
                   label |-> email_time, idx |-> 1, rows |-> <<>>,
                   fetched |-> <<>>, no |-> started + 1,
                   eligible |-> EligibleHods(email_time)]]
    /\ ev' = [op |-> "start", run |-> started + 1, label |-> email_time]
    /\ UNCHANGED <<attendance, sent_emails, now, outbox, calls>>

\* the cron job firing again and again, day after day: StartRun without an
\* end to the runs, those past the MaxRunStarts-th numbered as that one
RecurRun(r, email_time) ==
    /\ ~RunActive(r)
    /\ \A q \in Runs : q < r => RunActive(q)
    /\ started' = IF started < MaxRunStarts THEN started + 1 ELSE started
    /\ run' = [run EXCEPT ![r] =
                  [pc |-> IF Len(HodList) = 0 THEN "done" ELSE "select",
                   label |-> email_time, idx |-> 1, rows |-> <<>>,
                   fetched |-> <<>>, no |-> started',
                   eligible |-> EligibleHods(email_time)]]
    /\ ev' = [op |-> "start", run |-> started', label |-> email_time]
    /\ UNCHANGED <<attendance, sent_emails, now, outbox, calls>>

\* `continue` / end of the loop body: on to the next hod_email, or return
NextHod(rec) ==
    [rec EXCEPT !.idx = rec.idx + 1,
                !.pc = IF rec.idx + 1 > Len(HodList) THEN "done" ELSE "select",
                !.rows = <<>>, !.fetched = <<>>]

\* get_unsent_attendance_for_hod and the two skips of the loop body
SelectUnsent(r) ==
    /\ run[r].pc = "select"
    /\ LET hod    == HodList[run[r].idx]
           branch == Users[hod].branch
           label  == run[r].label
       IN  IF branch = ""
           THEN /\ run' = [run EXCEPT ![r] = NextHod(run[r])]
                /\ ev' = [op |-> "select", run |-> run[r].no, hod |-> hod,
                          label |-> label, rows |-> <<>>, skip |-> "no_branch"]
           ELSE \E rows \in SortedSeqs(Unsent(attendance, sent_emails, branch, label),
                                       DigestLeq) :
                  /\ run' = [run EXCEPT ![r] =
                               IF rows = <<>>
                               THEN NextHod(run[r])
                               ELSE [run[r] EXCEPT !.pc = "send", !.rows = rows,
                                                   !.fetched = FetchAll(rows)]]
                  /\ ev' = [op |-> "select", run |-> run[r].no, hod |-> hod,
                            label |-> label, rows |-> rows,
                            skip |-> IF rows = <<>> THEN "empty" ELSE "no"]
    /\ UNCHANGED <<attendance, sent_emails, now, started, outbox, calls>>

\* mutant of AfterSend: the markers written whatever send_email returned
AfterSendUnconditional(se, rows, sent, sent_at, email_time) ==
    MarkAttendanceAsSent(se, rows, sent_at, email_time)

\* mutant of AfterSend: the markers written for the rows attendance holds at
\* the time of marking, not for the rows of the selection
AfterSendMarkLedger(se, rows, sent, sent_at, email_time) ==
    IF sent
    THEN MarkAttendanceAsSent(se, [i \in 1..Len(attendance) |-> i], sent_at,
                              email_time)
    ELSE se

\* if sent: mark_attendance_as_sent(conn, attendance_ids, email_time); else: log
AfterSend(se, rows, sent, sent_at, email_time) ==
    IF sent THEN MarkAttendanceAsSent(se, rows, sent_at, email_time) ELSE se

\* mutant of AfterDispatch: a failed send ends the run
AbortOnFailure(rec, sent) ==
    IF sent THEN NextHod(rec)
    ELSE [rec EXCEPT !.pc = "done", !.rows = <<>>, !.fetched = <<>>]

\* both branches of `if sent:` only print and mark: send_email has caught every
\* exception, so the loop goes on to the next hod whatever `sent` is
AfterDispatch(rec, sent) == NextHod(rec)

\* send_email returns (True, None) or, the password missing or any exception
\* caught, (False, reason); the loop then marks or logs, and goes on to the
\* next hod.  The SMTP exchange touches no table, so the send and the commit
\* of the markers that follows it are one step.
SendEmail(r, sent) ==
    /\ run[r].pc = "send"
    /\ LET hod == HodList[run[r].idx]
       IN  /\ outbox' = outbox \cup
                           {[run |-> run[r].no, to |-> hod, label |-> run[r].label,
                             ids |-> Range(run[r].rows), sent |-> sent]}
           /\ ev' = [op |-> "send", run |-> run[r].no, hod |-> hod,
                     label |-> run[r].label, rows |-> run[r].rows, sent |-> sent,
                     body |-> FormatAttendanceReport(Users[hod].branch,
                                                     run[r].fetched)]
    /\ sent_emails' = AfterSend(sent_emails, run[r].rows, sent, now, run[r].label)
    /\ run' = [run EXCEPT ![r] = AfterDispatch(run[r], sent)]
    /\ UNCHANGED <<attendance, now, started, calls>>

----------------------------------------------------------------------------
(* The specifications *)

Init ==
    /\ attendance = <<>>
    /\ sent_emails = <<>>
    /\ now = 1
    /\ run = [r \in Runs |-> IdleRun]
    /\ started = 0
    /\ outbox = {}
    /\ calls = <<>>
    /\ ev = [op |-> "init"]

\* the requests clients make, by the callers C with the scan payloads SI
Requests(C, SI) ==
    \/ \E c \in C, p \in SI : AddScan(c, p[1], p[2])
    \/ \E c \in C, id \in 1..(Len(attendance) + 1), a \in ActionInputs :
          HodAction(c, id, a)
    \/ \E c \in C, ids \in SUBSET (1..(Len(attendance) + 1)), a \in ActionInputs :
          HodBulkAction(c, ids, a)
    \/ \E c \in C, e \in EventIdInputs, sort \in {"roll", "scanned_at"} :
          ViewEvent(c, e, sort)
    \/ \E c \in C, roll \in RollInputs : ScanLookup(c, roll)

DigestSteps ==
    \/ \E r \in Runs : SelectUnsent(r)
    \/ \E r \in Runs, sent \in BOOLEAN : SendEmail(r, sent)

NoRunActive == \A q \in Runs : ~RunActive(q)

\* the storage failing under a request of one of the callers C
StoreFailures(C) ==
    \E c \in C, ids \in SUBSET (1..(Len(attendance) + 1)), a \in ActionInputs :
        \E executed \in SUBSET ids : HodBulkActionFails(c, ids, executed, a)

\* The handlers alone, every caller and every payload.
NextLedger == Requests(Callers, ScanInputs)

SpecLedger == Init /\ [][NextLedger]_vars

\* The digest beside the scanner, the jobs of two scheduler instances firing
\* independently, so that runs may overlap.  (No handler but add_scan writes a
\* column the digest reads.)
NextDigest ==
    \/ \E c \in {1, 2}, p \in ScanInputs : AddScan(c, p[1], p[2])
    \/ DigestSteps
    \/ \E r \in Runs, t \in Labels : StartRun(r, t)

SpecDigest == Init /\ [][NextDigest]_vars

\* The digest beside the scanner with one scheduler instance: a job fires when
\* no run is executing.
NextSeq ==
    \/ \E c \in {1, 2}, p \in ScanInputs : AddScan(c, p[1], p[2])
    \/ DigestSteps
    \/ \E r \in Runs, t \in Labels : NoRunActive /\ StartRun(r, t)

SpecSeq == Init /\ [][NextSeq]_vars

\* Every handler and the digest together: the organiser and a hod as callers,
\* scans of a CS and of an EE student.
Next ==
    \/ Requests({1, 2}, {<<1, "R1">>, <<1, "R2">>})
    \/ DigestSteps
    \/ \E t \in Labels : started < MaxRunsWithReviews /\ StartRun(1, t)

Spec == Init /\ [][Next]_vars

\* The writes of the ledger with a storage that may fail: the organiser scans
\* a CS and an EE student, a hod reviews, and a bulk review may fail.
NextStore ==
    \/ \E p \in {<<1, "R1">>, <<1, "R2">>} : AddScan(1, p[1], p[2])
    \/ \E id \in 1..(Len(attendance) + 1), a \in ActionInputs : HodAction(2, id, a)
    \/ \E ids \in SUBSET (1..(Len(attendance) + 1)), a \in ActionInputs :
          HodBulkAction(2, ids, a)
    \/ StoreFailures({2})

SpecStore == Init /\ [][NextStore]_vars

\* Two hods reviewing at the same time, beside the scanner: a request's
\* UPDATE may come after that of a request that began later.
NextCalls ==
    \/ AddScan(1, 1, "R1")
    \/ \E c \in {2, 4}, id \in 1..(Len(attendance) + 1), a \in ActionInputs :
          BeginHodAction(c, id, a)
    \/ \E c \in {2, 4}, ids \in SUBSET (1..(Len(attendance) + 1)),
          a \in ActionInputs : BeginHodBulkAction(c, ids, a)
    \/ \E k \in 1..Len(calls) : CommitCall(k)

SpecCalls == Init /\ [][NextCalls]_vars

\* noon_email_job recurring for ever beside the scanner, one run at a time: a
\* CS student scanned at an event and at an event id of no event.
NextLive ==
    \/ \E p \in {<<1, "R1">>, <<9, "R1">>} : AddScan(1, p[1], p[2])
    \/ DigestSteps
    \/ \E r \in Runs : NoRunActive /\ RecurRun(r, "12:30")

\* the scheduler fires the job again and again, a run that has started goes
\* on to its end, and a dispatch to a hod that is tried again and again
\* succeeds in the end
FairLive ==
    /\ SF_vars(\E r \in Runs : NoRunActive /\ RecurRun(r, "12:30"))
    /\ \A r \in Runs : WF_vars(SelectUnsent(r))
    /\ \A r \in Runs : WF_vars(\E sent \in BOOLEAN : SendEmail(r, sent))
    /\ \A r \in Runs, h \in Range(HodList) :
          SF_vars(SendEmail(r, TRUE) /\ HodList[run[r].idx] = h)

SpecLive == Init /\ [][NextLive]_vars /\ FairLive

\* The two jobs one after the other beside the scanner and a hod's reviews.
NextSlots ==
    \/ AddScan(1, 1, "R1")
    \/ \E id \in 1..Len(attendance), a \in {"Approved", "Rejected"} :
          HodAction(2, id, a)
    \/ DigestSteps
    \/ \E r \in Runs, t \in Labels : NoRunActive /\ StartRun(r, t)

SpecSlots == Init /\ [][NextSlots]_vars

\* the scans behind the ledgers a report is formatted from: a CS student at
\* both events, an EE student
ReportScans == {<<1, "R1">>, <<2, "R1">>, <<1, "R2">>}

\* the ledgers that n add_scan calls of the organiser leave, n <= MaxReportRows
ReportLedgers ==
    UNION {{[k \in 1..n |-> NewAttendanceRow(f[k][1], f[k][2], k, 1)] :
                f \in [1..n -> ReportScans]} : n \in 0..MaxReportRows}

InitReport ==
    /\ attendance \in ReportLedgers
    /\ sent_emails = <<>>
    /\ now = Len(attendance) + 1
    /\ run = [r \in Runs |-> IdleRun]
    /\ started = 0
    /\ outbox = {}
    /\ calls = <<>>
    /\ ev = [op |-> "init"]

\* The digest over a ledger of up to MaxReportRows scans, one run at a time.
NextReport ==
    \/ DigestSteps
    \/ \E r \in Runs, t \in Labels : NoRunActive /\ StartRun(r, t)

SpecReport == InitReport /\ [][NextReport]_vars

----------------------------------------------------------------------------
(* Properties of the digest *)

\* the successfully dispatched emails to hod h at label t that contain record i
SentEmails(h, t, i) ==
    {e \in outbox : e.to = h /\ e.label = t /\ e.sent /\ i \in e.ids}

\* the position of hod h in hod_emails
HodIndex(h) == CHOOSE k \in 1..Len(HodList) : HodList[k] = h

\* C1: with runs of the digest in succession, a selection at label T holds no
\* record that already has a marker (record, T), and for every hod and every
\* record at most one successfully dispatched email at label T contains it.
C1_DigestIdempotent ==
    /\ (ev.op = "select" =>
            \A i \in Range(ev.rows) : ~HasMarker(sent_emails, i, ev.label))
    /\ \A h \in Range(HodList), t \in Labels, i \in 1..Len(attendance) :
            Cardinality(SentEmails(h, t, i)) <= 1

\* C1 witness: the second run, at the label of the first, has just selected
\* nothing for a hod whose email of the first run held both records.
C1_Witness ==
    /\ ev.op = "select"
    /\ ev.run = 2
    /\ ev.skip = "empty"
    /\ \E e \in outbox :
          /\ e.run = 1 /\ e.sent /\ e.to = ev.hod /\ e.label = ev.label
          /\ Cardinality(e.ids) = 2

\* C2 (as claimed): a failed dispatch leaves the records it held without a
\* marker at its label, and at the next run at that label the selection for
\* the same hod holds those records again.
C2_FailedDispatchReselected ==
    /\ (ev.op = "send" /\ ~ev.sent =>
            \A i \in Range(ev.rows) : ~HasMarker(sent_emails, i, ev.label))
    /\ (ev.op = "select" /\ ev.skip # "no_branch" =>
            \A e \in outbox :
                (e.to = ev.hod /\ e.label = ev.label /\ ~e.sent
                    /\ e.run + 1 = ev.run)
                => e.ids \subseteq Range(ev.rows))

\* C3: every marker (r, T) belongs to a successfully dispatched email at label
\* T whose selection held r, and right after a successful dispatch every
\* record of its selection has a marker at its label.
C3_MarkersOnlyOnDispatch ==
    /\ \A k \in 1..Len(sent_emails) :
          \E e \in outbox :
              /\ e.sent
              /\ e.label = sent_emails[k].email_time
              /\ sent_emails[k].attendance_id \in e.ids
    /\ (ev.op = "send" /\ ev.sent =>
            \A i \in Range(ev.rows) : HasMarker(sent_emails, i, ev.label))

\* C3 witness: a dispatch of two records has just succeeded after an earlier
\* dispatch failed.
C3_Witness ==
    /\ ev.op = "send"
    /\ ev.sent
    /\ Len(ev.rows) = 2
    /\ \E e \in outbox : ~e.sent

\* C4: sent_emails holds at most one row per (attendance_id, email_time).
C4_OneMarkerPerPair ==
    \A j, k \in 1..Len(sent_emails) :
        (/\ sent_emails[j].attendance_id = sent_emails[k].attendance_id
         /\ sent_emails[j].email_time = sent_emails[k].email_time)
        => j = k

\* C4 witness: two overlapping runs at one label have both dispatched the same
\* record, so the second INSERT OR IGNORE met the first one's row.
C4_Witness ==
    \E e1, e2 \in outbox :
        /\ e1.run # e2.run
        /\ e1.sent /\ e2.sent
        /\ e1.label = e2.label
        /\ e1.ids \cap e2.ids # {}
        /\ \A i \in e1.ids \cup e2.ids : HasMarker(sent_emails, i, e1.label)

\* C5 (as claimed): no record is held by more than one successfully
\* dispatched email at one label, also when runs at that label overlap.
C5_NoRecordInTwoEmails ==
    \A e1, e2 \in outbox :
        (e1 # e2 /\ e1.sent /\ e2.sent /\ e1.label = e2.label)
        => e1.ids \cap e2.ids = {}

\* C6 (as claimed): when a run has ended, every hod who has a branch for which
\* some record had no marker at the run's label when the run started has been
\* dispatched a digest in that run.
C6_EveryEligibleHodDispatched ==
    \A r \in Runs :
        run[r].pc = "done" =>
            \A h \in run[r].eligible :
                \E e \in outbox : e.run = run[r].no /\ e.to = h

----------------------------------------------------------------------------
(* Properties of the ledger *)

\* C8: the row add_scan has just inserted is the last row, has status Pending
\* and has neither reviewer nor review timestamp.
C8_ScanCreatesPending ==
    (ev.op = "add_scan" /\ ev.code = 200) =>
        /\ ev.id = Len(attendance)
        /\ attendance[ev.id].status = "Pending"
        /\ attendance[ev.id].hod_id = NULL
        /\ attendance[ev.id].hod_action_at = NULL

\* C8 witness: a scan of a roll that no student has, for an event that does
\* not exist or not, has been added to a ledger whose first row is reviewed.
C8_Witness ==
    /\ ev.op = "add_scan"
    /\ ev.code = 200
    /\ ev.id = 2
    /\ attendance[1].status = "Rejected"
    /\ attendance[2].roll = "RX"

\* C9: in every row of attendance, hod_id and hod_action_at are both NULL or
\* both set.
C9_ReviewerFieldsTogether ==
    \A i \in 1..Len(attendance) :
        (attendance[i].hod_id = NULL) <=> (attendance[i].hod_action_at = NULL)

\* C9 witness: hod_bulk_action has just updated two rows, one of which
\* hod_action had reviewed before.
C9_Witness ==
    /\ ev.op = "hod_bulk_action"
    /\ ev.code = 200
    /\ Len(attendance) = 2
    /\ \A i \in 1..2 : attendance[i].hod_id # NULL
    /\ attendance[1].hod_action_at # NULL

\* the status of a row that exists changes in this step
StatusChanges ==
    \E i \in 1..Len(attendance) : attendance'[i].status # attendance[i].status

\* C10: in every state a hod's hod_action can take every row to each of the
\* three statuses, and a step changes the status of a row that exists only if
\* it is a hod_action or hod_bulk_action that succeeded: no add_scan,
\* view_event, scan_lookup or step of a digest run does.
C10_UnguardedStateMachine ==
    /\ [](\A i \in 1..Len(attendance), st \in Status :
            ENABLED (HodAction(2, i, st) /\ attendance'[i].status = st))
    /\ [][StatusChanges =>
            (ev'.op \in {"hod_action", "hod_bulk_action"} /\ ev'.code = 200)]_vars

\* C10 witness: a digest has been dispatched, and a hod has just set to
\* Pending a row that a hod reviewed, beside a row that is Approved.
C10_Witness ==
    /\ ev.op = "hod_action"
    /\ ev.code = 200
    /\ outbox # {}
    /\ Len(attendance) = 2
    /\ attendance[1].status = "Pending" /\ attendance[1].hod_id # NULL
    /\ attendance[2].status = "Approved"

----------------------------------------------------------------------------
(* Properties of the handlers' contract *)

\* the caller is logged in as a user whose role is the given one
HasRole(caller, role) == caller # NoUser /\ Users[caller].role = role

\* the attendance ids a client may post: those of the rows and one of no row
IdInputs == 1..(Len(attendance) + 1)

\* the step answers 401 and writes neither table
Rejected401 ==
    /\ ev'.code = 401
    /\ attendance' = attendance
    /\ sent_emails' = sent_emails

\* C11 (as claimed): hod_action and hod_bulk_action by a caller whose role is
\* not hod, and add_scan by a caller whose role is not organiser (nobody
\* logged in included), answer 401 and leave attendance and sent_emails as
\* they were.
C11_UnauthorizedRejected ==
    [][/\ \A c \in Callers, id \in IdInputs, a \in ActionInputs :
            (~HasRole(c, "hod") /\ HodAction(c, id, a)) => Rejected401
       /\ \A c \in Callers, ids \in SUBSET IdInputs, a \in ActionInputs :
            (~HasRole(c, "hod") /\ HodBulkAction(c, ids, a)) => Rejected401
       /\ \A c \in Callers, p \in ScanInputs :
            (~HasRole(c, "organiser") /\ AddScan(c, p[1], p[2])) => Rejected401
      ]_vars

\* C12 (as claimed): a hod_action or hod_bulk_action by a hod changes no row
\* whose student's branch is not the hod's branch.
C12_HodChangesOwnBranchOnly ==
    [][/\ \A c \in Callers, id \in IdInputs, a \in ActionInputs :
            (HasRole(c, "hod") /\ HodAction(c, id, a)) =>
                \A i \in 1..Len(attendance) :
                    attendance'[i] # attendance[i] =>
                        JoinedBranch(attendance[i]) = Users[c].branch
       /\ \A c \in Callers, ids \in SUBSET IdInputs, a \in ActionInputs :
            (HasRole(c, "hod") /\ HodBulkAction(c, ids, a)) =>
                \A i \in 1..Len(attendance) :
                    attendance'[i] # attendance[i] =>
                        JoinedBranch(attendance[i]) = Users[c].branch
      ]_vars

\* C13: every row view_event lists for a hod is a row whose roll is in
\* students and whose student's branch is the hod's branch.
C13_HodListingOwnBranch ==
    [][ev'.op = "view_event" =>
        \A c \in Callers, e \in EventIdInputs, sort \in {"roll", "scanned_at"} :
            (HasRole(c, "hod") /\ ViewEvent(c, e, sort)) =>
                \A k \in 1..Len(ev'.rows) :
                    /\ attendance[ev'.rows[k]].roll \in DOMAIN Students
                    /\ Students[attendance[ev'.rows[k]].roll].branch
                          = Users[c].branch
      ]_vars

\* C13 witness: view_event has listed one row of an event that has two, the
\* other being of a roll of another branch or of no student: the organiser's
\* listing holds both, any other role's none, so the viewer is the hod.
C13_Witness ==
    /\ ev.op = "view_event"
    /\ ev.code = 200
    /\ Len(ev.rows) = 1
    /\ Len(attendance) = 2
    /\ attendance[1].event_id = attendance[2].event_id
    /\ JoinedBranch(attendance[ev.rows[1]]) = "CS"
    /\ \E i \in 1..2 : JoinedBranch(attendance[i]) # "CS"

\* C14 (as claimed): hod_action and hod_bulk_action by a hod with an action
\* that is none of Approved, Rejected, Pending answer with a validation error
\* (400) and change no row, and so does hod_bulk_action with no ids.
C14_InvalidActionRejected ==
    [][/\ \A c \in Callers, id \in IdInputs, a \in ActionInputs \ Status :
            (HasRole(c, "hod") /\ HodAction(c, id, a)) =>
                (ev'.code = 400 /\ attendance' = attendance)
       /\ \A c \in Callers, ids \in SUBSET IdInputs, a \in ActionInputs :
            (/\ HasRole(c, "hod")
             /\ (a \notin Status \/ ids = {})
             /\ HodBulkAction(c, ids, a)) =>
                (ev'.code = 400 /\ attendance' = attendance)
      ]_vars

\* C17 (as claimed): the `updated` list of a hod_bulk_action that succeeded
\* holds only ids of rows of attendance.
C17_UpdatedIsAuthoritative ==
    (ev.op = "hod_bulk_action" /\ ev.code = 200) =>
        ev.updated \subseteq 1..Len(attendance)

\* C18 (as claimed): add_scan by the organiser for an event_id of no event
\* answers not found (404) and inserts no row, and hod_action by a hod for
\* an attendance_id of no row answers not found rather than ok.
C18_AbsentEntityRejected ==
    [][/\ \A c \in Callers, p \in ScanInputs :
            (/\ HasRole(c, "organiser")
             /\ p[1] \notin DOMAIN Events
             /\ AddScan(c, p[1], p[2])) =>
                (ev'.code = 404 /\ attendance' = attendance)
       /\ \A c \in Callers, id \in IdInputs, a \in Status :
            (/\ HasRole(c, "hod")
             /\ id \notin 1..Len(attendance)
             /\ HodAction(c, id, a)) =>
                ev'.code = 404
      ]_vars

\* C19 (as claimed): the counts add_scan returns are total, pending, approved
\* and rejected, each the number of the event's rows in that status after the
\* insert, and total is the sum of the other three.
C19_LiveCounts ==
    (ev.op = "add_scan" /\ ev.code = 200) =>
        LET e == attendance[ev.id].event_id
        IN  /\ DOMAIN ev.counts = {"total", "pending", "approved", "rejected"}
            /\ ev.counts.total = CountEvent(attendance, e)
            /\ ev.counts.pending = CountEventStatus(attendance, e, "Pending")
            /\ ev.counts.approved = CountEventStatus(attendance, e, "Approved")
            /\ ev.counts.rejected = CountEventStatus(attendance, e, "Rejected")
            /\ ev.counts.total = ev.counts.pending + ev.counts.approved
                                    + ev.counts.rejected

\* C15 (as claimed): when hod_bulk_action fails after the UPDATEs for some of
\* its ids, the rows of those ids keep the new status, reviewer and review
\* timestamp.
C15_PartialUpdatesKept ==
    [][ev'.code = 500 =>
        \A c \in {2}, ids \in SUBSET IdInputs, a \in Status :
            \A executed \in SUBSET ids :
                HodBulkActionFails(c, ids, executed, a) =>
                    \A i \in executed \cap (1..Len(attendance)) :
                        /\ attendance'[i].status = a
                        /\ attendance'[i].hod_id = c
                        /\ attendance'[i].hod_action_at = now
      ]_vars

\* C15 (amended): when hod_bulk_action fails, after the UPDATEs for some of
\* its ids or for all of them, it answers 500 and every row of attendance is
\* as it was before the call.
C15_FailedBulkRolledBack ==
    [][ev'.code = 500 =>
        \A c \in {2}, ids \in SUBSET IdInputs, a \in Status :
            \A executed \in SUBSET ids :
                HodBulkActionFails(c, ids, executed, a) =>
                    (ev'.op = "hod_bulk_action" /\ attendance' = attendance)
      ]_vars

\* C15 witness: hod_bulk_action has just failed after the UPDATE of row 1 and
\* before that of row 2, and neither row has a reviewer.
C15_Witness ==
    /\ ev.op = "hod_bulk_action"
    /\ ev.code = 500
    /\ Len(attendance) = 2
    /\ ev.executed = {1}
    /\ \A i \in 1..2 :
          attendance[i].status = "Pending" /\ attendance[i].hod_id = NULL

\* C16: hod_bulk_action by a hod with a valid action and ids of which some
\* are of no row answers ok, sets status, hod_id and hod_action_at of every
\* row whose id is among them, and leaves the other rows as they were.
C16_BulkSkipsMissingIds ==
    [][ev'.op = "hod_bulk_action" =>
        \A c \in Callers, ids \in SUBSET IdInputs, a \in Status :
            (HasRole(c, "hod") /\ ids # {} /\ HodBulkAction(c, ids, a)) =>
                /\ ev'.code = 200
                /\ Len(attendance') = Len(attendance)
                /\ \A i \in 1..Len(attendance) :
                      attendance'[i] =
                        IF i \in ids
                        THEN [attendance[i] EXCEPT !.status = a, !.hod_id = c,
                                                   !.hod_action_at = now]
                        ELSE attendance[i]
      ]_vars

\* C16 witness: hod_bulk_action has just answered ok for the ids 1 and 3 on a
\* table of two rows; row 1 is reviewed and row 2 is not.
C16_Witness ==
    /\ ev.op = "hod_bulk_action"
    /\ ev.code = 200
    /\ Len(attendance) = 2
    /\ ev.updated = {1, 3}
    /\ attendance[1].status = "Approved" /\ attendance[1].hod_id = 2
    /\ attendance[2].status = "Pending" /\ attendance[2].hod_id = NULL

\* C20: every add_scan by the organiser appends one Pending row of the scanned
\* event_id and roll and leaves every row as it was, whether or not a row of
\* that event_id and roll exists; and a hod_action changes no row but the one
\* whose id it names.
C20_NoDeduplication ==
    [][/\ \A c \in Callers, p \in ScanInputs :
            (HasRole(c, "organiser") /\ AddScan(c, p[1], p[2])) =>
                /\ Len(attendance') = Len(attendance) + 1
                /\ \A i \in 1..Len(attendance) : attendance'[i] = attendance[i]
                /\ attendance'[Len(attendance')].event_id = p[1]
                /\ attendance'[Len(attendance')].roll = p[2]
                /\ attendance'[Len(attendance')].status = "Pending"
       /\ \A c \in Callers, id \in IdInputs, a \in ActionInputs :
            HodAction(c, id, a) =>
                \A i \in 1..Len(attendance) :
                    i # id => attendance'[i] = attendance[i]
      ]_vars

\* C20 witness: two rows of one event_id and roll; a hod_action has just
\* approved the first, and the second is Pending without a reviewer.
C20_Witness ==
    /\ ev.op = "hod_action"
    /\ Len(attendance) = 2
    /\ attendance[1].event_id = attendance[2].event_id
    /\ attendance[1].roll = attendance[2].roll
    /\ attendance[1].status = "Approved" /\ attendance[1].hod_id # NULL
    /\ attendance[2].status = "Pending" /\ attendance[2].hod_id = NULL
    /\ attendance[2].hod_action_at = NULL

----------------------------------------------------------------------------
(* Properties of the report and of the runs beside the handlers *)

\* the title of the event of the attendance row of id i
TitleOf(i) == Events[attendance[i].event_id].title

\* the lines or parts of the given kind, in order
OfKind(lines, kind) == SelectSeq(lines, LAMBDA l : l.kind = kind)

\* the number of rows of sent_emails at the label for the ids
MarkersAt(label, ids) ==
    Cardinality({k \in 1..Len(sent_emails) :
                    /\ sent_emails[k].email_time = label
                    /\ sent_emails[k].attendance_id \in ids})

Writers(i) ==
    {k \in 1..Len(calls) : calls[k].pc = "done" /\ i \in calls[k].matched}

\* the one of them that committed last
LastWriter(i) ==
    CHOOSE k \in Writers(i) : \A j \in Writers(i) : calls[j].order <= calls[k].order

\* C22: whatever the order in which requests served at the same time read
\* their timestamps and commit, the status, hod_id and hod_action_at of a row
\* are the action, the caller and the timestamp of one request, the one that
\* committed its UPDATE of the row last, and a row that no request has
\* updated is as add_scan left it.
C22_LastWriteWins ==
    \A i \in 1..Len(attendance) :
        IF Writers(i) = {}
        THEN /\ attendance[i].status = "Pending"
             /\ attendance[i].hod_id = NULL
             /\ attendance[i].hod_action_at = NULL
        ELSE /\ attendance[i].status = calls[LastWriter(i)].action
             /\ attendance[i].hod_id = calls[LastWriter(i)].caller
             /\ attendance[i].hod_action_at = calls[LastWriter(i)].t

\* C22 witness: two hods' requests for row 1 with different actions; the one
\* that began first, with the earlier timestamp, committed last, and row 1
\* holds its three values; row 2 is untouched.
C22_Witness ==
    /\ Len(calls) = 2
    /\ Len(attendance) = 2
    /\ calls[1].pc = "done" /\ calls[2].pc = "done"
    /\ calls[1].order = 2 /\ calls[2].order = 1
    /\ calls[1].op = "hod_action" /\ calls[2].op = "hod_bulk_action"
    /\ calls[1].ids = {1} /\ calls[2].ids = {1}
    /\ calls[1].caller # calls[2].caller
    /\ calls[1].action = "Rejected" /\ calls[2].action = "Approved"
    /\ calls[1].t < calls[2].t
    /\ attendance[1].status = "Rejected"
    /\ attendance[1].hod_id = calls[1].caller
    /\ attendance[1].hod_action_at = calls[1].t
    /\ attendance[2].hod_id = NULL

\* the branches of the hods
HodBranches == {Users[h].branch : h \in Range(HodList)} \ {""}

\* C23 (as claimed): with the noon digest recurring for ever and dispatches
\* succeeding in the end, every row of attendance whose student's branch is
\* a hod's branch is in the end held by a dispatched email at the label 12:30
\* and has a row of sent_emails at that label.
C23_EveryRecordEventuallySent ==
    \A i \in 1..MaxRecords :
        (i <= Len(attendance) /\ JoinedBranch(attendance[i]) \in HodBranches)
        ~> (/\ HasMarker(sent_emails, i, "12:30")
            /\ \E e \in outbox : e.sent /\ e.label = "12:30" /\ i \in e.ids)

WithoutRowAt(label, branch) ==
    {i \in 1..Len(attendance) :
        /\ attendance[i].event_id \in DOMAIN Events
        /\ attendance[i].roll \in DOMAIN Students
        /\ Students[attendance[i].roll].branch = branch
        /\ ~\E k \in 1..Len(sent_emails) :
              /\ sent_emails[k].attendance_id = i
              /\ sent_emails[k].email_time = label}

\* C25: the selection of a run at label T for a hod is the rows of the hod's
\* branch that have no row of sent_emails at T, whatever rows they have at
\* the other label and whatever their status; and a dispatch at T leaves the
\* rows without a row of sent_emails at the other label as they were.
C25_LabelsIndependent ==
    /\ []((ev.op = "select" /\ ev.skip # "no_branch") =>
            Range(ev.rows) = WithoutRowAt(ev.label, Users[ev.hod].branch))
    /\ [][ev'.op = "send" =>
            \A t \in Labels \ {ev'.label}, b \in {"CS", "EE"} :
                Unsent(attendance', sent_emails', b, t)
                    = Unsent(attendance, sent_emails, b, t)]_vars

\* C25 witness: the second run, at 16:00, has just selected a row that has a
\* row of sent_emails at 12:30, was reviewed since, and is not Pending.
C25_Witness ==
    /\ ev.op = "select"
    /\ ev.run = 2
    /\ ev.label = "16:00"
    /\ \E i \in Range(ev.rows) :
          /\ HasMarker(sent_emails, i, "12:30")
          /\ ~HasMarker(sent_emails, i, "16:00")
          /\ attendance[i].status # "Pending"

\* the rows of attendance whose roll is the roll of no student or whose
\* event_id is the id of no event
Unjoinable ==
    {i \in 1..Len(attendance) :
        \/ attendance[i].roll \notin DOMAIN Students
        \/ attendance[i].event_id \notin DOMAIN Events}

\* C26: a row of attendance whose roll is in no row of students or whose
\* event does not exist is in no selection of a run, in no email handed to
\* SMTP and in no row of sent_emails.
C26_UnjoinableNeverReported ==
    \A i \in Unjoinable :
        /\ \A r \in Runs : i \notin Range(run[r].rows)
        /\ \A e \in outbox : i \notin e.ids
        /\ \A t \in Labels : ~HasMarker(sent_emails, i, t)
        /\ ev.op \in {"select", "send"} => i \notin Range(ev.rows)

\* C26 witness: an email of the CS hod was sent and marked while the ledger
\* held, beside the rows in it, a row of a CS student for an event that does
\* not exist, scanned before one of the rows in the email.
C26_Witness ==
    /\ ev.op = "send" /\ ev.sent /\ ev.rows # <<>>
    /\ \E i \in Unjoinable, j \in Range(ev.rows) :
          /\ JoinedBranch(attendance[i]) = Users[ev.hod].branch
          /\ attendance[i].scanned_at < attendance[j].scanned_at
          /\ HasMarker(sent_emails, j, ev.label)

====
